---------------------------- MODULE Spec2Model ----------------------------
(***************************************************************************)
(* A model of the notification poller of SmartHospital (src/poller.py):    *)
(* conditional sync of the three CSV datasets (fetch_to), the persisted    *)
(* ledger (load_state / save_state, PROCESSED_MEM), the selection of new   *)
(* rows by last_ts / last_row, and the Telegram + Email fan-out of         *)
(* run_once.                                                               *)
(*                                                                         *)
(* Conventions.                                                            *)
(*  - A timestamp string is a natural number: 0 stands for a string that   *)
(*    parse_iso cannot parse (empty or malformed), n > 0 for an ISO time   *)
(*    of n half-seconds.  to_iso(timespec="seconds") drops the odd half.   *)
(*  - Row indices are those of pandas' RangeIndex: the i-th element of a   *)
(*    sequence has idx = i - 1.                                            *)
(*  - A key is a record rather than the formatted string; the field        *)
(*    alphabet holds no "|" and no "id:" prefix, on which the format of    *)
(*    make_key / make_channel_key is injective.                            *)
(*  - Phones are written already normalised (normalize_phone is the        *)
(*    identity on them).                                                   *)
(***************************************************************************)
EXTENDS Integers, Sequences, FiniteSets, TLC

(***************************************************************************)
(* Bounds of the model.                                                    *)
(***************************************************************************)
\* rows the events file holds at most
MaxRows == 2
\* poll cycles of main()'s loop that are explored
MaxCycles == 2
\* process restarts that are explored
MaxRestarts == 1
\* the retention bound of the ledger: stands for the 50000 of
\* poller.py:449-450, scaled down so that the trim happens
RetentionBound == 2
\* days the reporter's clock runs through
MaxDays == 1

None == -1

(***************************************************************************)
(* Configuration: the environment variables the module reads at import,    *)
(* and what the remote server may answer.  env is set once, by Init.       *)
(***************************************************************************)
VARIABLES
    env,            \* the configuration of the deployment
    files           \* the local CSV files: path -> sequence of rows

CHANNELS == env.CHANNELS
DRY_RUN == env.DRY_RUN
TELEGRAM_BOT_TOKEN == env.TELEGRAM_BOT_TOKEN
SMTP_HOST == env.SMTP_HOST
SYNC_UPDATES_URL == env.SYNC_UPDATES_URL
SYNC_ONCALL_URL == env.SYNC_ONCALL_URL
SYNC_STAFF_URL == env.SYNC_STAFF_URL
\* config.py's department -> chat id table; poller.py never imports it
TELEGRAM_CHAT_IDS == [d \in {"ER", "ICU"} |-> IF d = "ER" THEN "200" ELSE "500"]

Paths == {"updates", "oncall", "staff"}
UrlOf(path) ==
    CASE path = "updates" -> SYNC_UPDATES_URL
      [] path = "oncall"  -> SYNC_ONCALL_URL
      [] path = "staff"   -> SYNC_STAFF_URL
\* the URLs a deployment may configure
Urls == {"u_updates", "u_oncall", "u_staff"}

(***************************************************************************)
(* The datasets.                                                           *)
(***************************************************************************)
TemplateRow(id, dep, ts, template) ==
    [id |-> id, patient_name |-> "P1", department |-> dep, event |-> "adm",
     timestamp |-> ts, template |-> template]
\* a row with an empty template column
Row(id, dep, ts) == TemplateRow(id, dep, ts, "")

\* the rows a remote events file may be extended with
EventRows ==
    { TemplateRow("", "ER", 5, "transfer"),
                             \* no id, a timestamp with half a second, and
                             \* a template that names a column the events
                             \* file does not have
      Row("", "ER", 0),      \* no id, unparseable timestamp
      Row("7", "ER", 4),     \* a row with an id
      Row("7", "ER", 2),     \* the same id, an older timestamp
      Row("7", "ICU", 2),    \* the same id, another department
      Row("", "", 4),        \* missing department
      Row("", "LAB", 4) }    \* a department nobody is on call for

StaffRow(phone, auth, tg, email, en) ==
    [phone |-> phone, authorized |-> auth, telegram_chat_id |-> tg,
     email |-> email, email_enabled |-> en]
OncallRow(dep, phone, chat, auth) ==
    [department |-> dep, phone |-> phone, telegram_chat_id |-> chat,
     authorized |-> auth]

StaffFile ==
    << StaffRow("p1", "1",    "100", "a@h", "1"),
       StaffRow("p2", "true", "",    "b@h", ""),
       StaffRow("p3", "0",    "300", "c@h", "1"),
       StaffRow("p4", "yes",  "400", "d@h", "0") >>

\* the roster: ER has two authorised staff on call and a chat id directly
\* on its first row; ICU has an unauthorised and an authorised one
OncallFileA ==
    << OncallRow("ER",  "p1", "900", "1"),
       OncallRow("ER",  "p2", "",    "1"),
       OncallRow("ICU", "p3", "",    "1"),
       OncallRow("ICU", "p4", "",    "0") >>
\* a later roster: ER is covered by p4 alone
OncallFileB ==
    << OncallRow("ER",  "p4", "",    "1") >>
OncallFiles == {OncallFileA, OncallFileB}

\* a template string is a sequence of pieces: literal text, or a
\* placeholder "{name}"
Lit(text) == [lit |-> TRUE, s |-> text]
Ph(name) == [lit |-> FALSE, s |-> name]

\* templates.json: "default" uses the fields every event has, "transfer"
\* names a column "ward"
TEMPLATES ==
    [default |->
        [telegram |-> << Lit("New: "), Ph("patient"), Lit(" / "),
                         Ph("department"), Lit(" / "), Ph("event") >>,
         subject  |-> << Lit("["), Ph("department"), Lit("] "), Ph("event") >>],
     transfer |->
        [telegram |-> << Ph("patient"), Lit(" moves to "), Ph("ward") >>,
         subject  |-> << Lit("Transfer "), Ph("ward"), Lit(": "),
                         Ph("patient") >>]]

(***************************************************************************)
(* Pure helpers of poller.py.                                              *)
(***************************************************************************)
Range(s) == {s[i] : i \in DOMAIN s}

Max(a, b) == IF a >= b THEN a ELSE b

parse_iso(s) == IF s = 0 THEN None ELSE s

to_iso(dt) == (dt \div 2) * 2

make_key(row_id, patient, department, event, ts_str) ==
    IF row_id # ""
    THEN [id |-> row_id, patient |-> "", department |-> "", event |-> "",
          ts |-> 0]
    ELSE [id |-> "", patient |-> patient, department |-> department,
          event |-> event, ts |-> ts_str]

make_channel_key(base_key, channel, recipient) ==
    [base |-> base_key, ch |-> channel,
     to |-> IF recipient = "" THEN "-" ELSE recipient]

\* staff["authorized"]: the strings that count as true
authorized_flag(v) == v \in {"1", "True", "true", "yes", "Y"}

\* as_bool(x, default=True) of run_once, on the lower-cased string
as_bool(x) ==
    IF x \in {"1", "true", "yes", "y"} THEN TRUE
    ELSE IF x \in {"0", "false", "no", "n"} THEN FALSE
    ELSE TRUE


\* staff_by_phone of run_once: phone -> info, a later row of the same phone
\* overwriting an earlier one; rows without a phone are left out
staff_by_phone(staff) ==
    LET phones == {staff[i].phone : i \in DOMAIN staff} \ {""}
        last(ph) == CHOOSE i \in DOMAIN staff :
                        /\ staff[i].phone = ph
                        /\ \A j \in DOMAIN staff : staff[j].phone = ph => j <= i
    IN [ph \in phones |->
          [authorized       |-> authorized_flag(staff[last(ph)].authorized),
           telegram_chat_id |-> staff[last(ph)].telegram_chat_id,
           email            |-> staff[last(ph)].email,
           email_enabled    |-> as_bool(staff[last(ph)].email_enabled)]]

\* dep_to_oncall.get(department, set()): the phones of the on-call rows of
\* the department whose staff record exists and is authorised
dep_to_oncall(oncall, sbp, department) ==
    { oncall[i].phone : i \in
        { j \in DOMAIN oncall :
            /\ oncall[j].department = department
            /\ oncall[j].department # ""
            /\ oncall[j].phone # ""
            /\ oncall[j].phone \in DOMAIN sbp
            /\ sbp[oncall[j].phone].authorized } }

\* the orders in which "for ph in targets" may visit a Python set
Orders(S) ==
    { o \in [1..Cardinality(S) -> S] : \A i, j \in DOMAIN o : o[i] = o[j] => i = j }

\* a selection that goes by the timestamp alone
is_new_by_timestamp_only(last_dt, ts_dt, idx, last_row) ==
    \/ last_dt = None
    \/ (ts_dt # None /\ last_dt # None /\ ts_dt > last_dt)

\* is_new of run_once's selection loop
is_new(last_dt, ts_dt, idx, last_row) ==
    \/ last_dt = None
    \/ (ts_dt # None /\ last_dt # None /\ ts_dt > last_dt)
    \/ idx > last_row

RECURSIVE select_new(_, _, _, _)
\* to_process: the indices of the new rows, in file order
select_new(updates, i, last_dt, last_row) ==
    IF i > Len(updates) THEN << >>
    ELSE LET rest == select_new(updates, i + 1, last_dt, last_row)
         IN IF is_new(last_dt, parse_iso(updates[i].timestamp), i - 1, last_row)
            THEN << i - 1 >> \o rest
            ELSE rest

\* what a send returns (ok) and whether it called the provider
Returned(ok) == [ok |-> ok, called |-> FALSE]
Provider(ok) == [ok |-> ok, called |-> TRUE]

\* a send_telegram that has no dry-run and no simulate branch
send_telegram_live_only(chat_id, provider_ok) ==
    IF chat_id = "" THEN Returned(FALSE) ELSE Provider(provider_ok)

\* send_telegram: requests.post is reached only with a chat id, without
\* DRY_RUN and with a token; provider_ok is what the call then gives (a
\* status 200, or another status or an exception)
send_telegram(chat_id, provider_ok) ==
    IF chat_id = "" THEN Returned(FALSE)
    ELSE IF DRY_RUN THEN Returned(TRUE)
    ELSE IF TELEGRAM_BOT_TOKEN = "" THEN Returned(TRUE)
    ELSE Provider(provider_ok)

\* send_email: the SMTP server is reached only with a recipient, without
\* DRY_RUN and with SMTP_HOST
send_email(to_email, provider_ok) ==
    IF to_email = "" THEN Returned(FALSE)
    ELSE IF DRY_RUN THEN Returned(TRUE)
    ELSE IF SMTP_HOST = "" THEN Returned(TRUE)
    ELSE Provider(provider_ok)

RECURSIVE join(_)
\* the pieces of a string put together
join(pieces) ==
    IF pieces = << >> THEN "" ELSE Head(pieces) \o join(Tail(pieces))

\* the values dict run_once builds for a row (its five fields; the events
\* file has no other column)
values_of(row) ==
    [patient    |-> row.patient_name,
     department |-> row.department,
     event      |-> row.event,
     timestamp  |-> ToString(row.timestamp),
     id         |-> row.id]

\* s.format(**values) raises KeyError: a placeholder names no key of values
format_raises(s, values) ==
    \E i \in DOMAIN s : ~s[i].lit /\ s[i].s \notin DOMAIN values

\* fill of render_template: "" for an empty template, the formatted string,
\* or, on KeyError, the template string itself
fill(s, values) ==
    IF s = << >> THEN ""
    ELSE IF format_raises(s, values)
         THEN join([i \in DOMAIN s |->
                      IF s[i].lit THEN s[i].s ELSE "{" \o s[i].s \o "}"])
    ELSE join([i \in DOMAIN s |->
                 IF s[i].lit THEN s[i].s ELSE values[s[i].s]])

\* render_template: the Telegram text and the email subject
render_template(tmpl_block, values) ==
    [tel_text |-> fill(tmpl_block.telegram, values),
     subj     |-> fill(tmpl_block.subject, values)]

\* the template block run_once picks for a row
template_of(row) ==
    LET template_name == IF row.template # "" THEN row.template ELSE "default"
    IN IF template_name \in DOMAIN TEMPLATES THEN TEMPLATES[template_name]
       ELSE TEMPLATES["default"]

\* the text handed to send_telegram / the subject handed to send_email for
\* a row
message_text(row, channel) ==
    LET r == render_template(template_of(row), values_of(row))
    IN IF channel = "telegram"
       THEN IF r.tel_text # "" THEN r.tel_text
            ELSE row.event \o " - " \o row.department \o " - " \o row.patient_name
       ELSE IF r.subj # "" THEN r.subj
            ELSE "[" \o row.department \o "] " \o row.event

\* what one attempt leaves: the key is recorded only when the send was ok;
\* append_audit writes a row either way
attempt(acc, idx, ph, ch_key, channel, recipient, res) ==
    [processed |-> IF res.ok THEN acc.processed \cup {ch_key} ELSE acc.processed,
     mem       |-> IF res.ok THEN acc.mem \cup {ch_key} ELSE acc.mem,
     sent      |-> IF res.ok THEN acc.sent + 1 ELSE acc.sent,
     log       |-> Append(acc.log,
                     [idx |-> idx, ph |-> ph, key |-> ch_key, ch |-> channel,
                      to |-> recipient,
                      text |-> message_text(files.updates[idx + 1], channel),
                      called |-> res.called,
                      status |-> IF res.ok THEN "sent" ELSE "error"])]

\* the Telegram branch of the fan-out loop for one on-call phone
telegram_branch(acc, idx, base_key, ph, info, provider_ok) ==
    LET tg_id  == info.telegram_chat_id
        ch_key == make_channel_key(base_key, "telegram", tg_id)
    IN IF "telegram" \in CHANNELS /\ tg_id # "" /\ ch_key \notin acc.processed
       THEN attempt(acc, idx, ph, ch_key, "telegram", tg_id,
                    send_telegram(tg_id, provider_ok))
       ELSE acc

\* the Email branch of the fan-out loop for one on-call phone
email_branch(acc, idx, base_key, ph, info, provider_ok) ==
    LET to_email == info.email
        ch_key   == make_channel_key(base_key, "email", to_email)
    IN IF /\ "email" \in CHANNELS
          /\ to_email # ""
          /\ info.email_enabled
          /\ ch_key \notin acc.processed
       THEN attempt(acc, idx, ph, ch_key, "email", to_email,
                    send_email(to_email, provider_ok))
       ELSE acc

RECURSIVE fan_out_email_first(_, _, _, _, _, _, _)
\* a fan-out that tries Email before Telegram
fan_out_email_first(acc, idx, base_key, order, i, sbp, out) ==
    IF i > Len(order) THEN acc
    ELSE LET ph  == order[i]
             a1  == email_branch(acc, idx, base_key, ph, sbp[ph],
                                 out[<<ph, "email">>])
             a2  == telegram_branch(a1, idx, base_key, ph, sbp[ph],
                                    out[<<ph, "telegram">>])
         IN fan_out_email_first(a2, idx, base_key, order, i + 1, sbp, out)

RECURSIVE fan_out_until_error(_, _, _, _, _, _, _)
\* a fan-out that gives the row up at the first attempt that fails
fan_out_until_error(acc, idx, base_key, order, i, sbp, out) ==
    IF i > Len(order) THEN acc
    ELSE LET ph  == order[i]
             a1  == telegram_branch(acc, idx, base_key, ph, sbp[ph],
                                    out[<<ph, "telegram">>])
             a2  == email_branch(a1, idx, base_key, ph, sbp[ph],
                                 out[<<ph, "email">>])
             failed(a) == a.log # << >> /\ a.log[Len(a.log)].status = "error"
                          /\ Len(a.log) > Len(acc.log)
         IN IF failed(a1) THEN a1
            ELSE IF failed(a2) THEN a2
            ELSE fan_out_until_error(a2, idx, base_key, order, i + 1, sbp, out)

RECURSIVE fan_out(_, _, _, _, _, _, _)
\* "for ph in targets": Telegram, then Email, for each phone in turn
fan_out(acc, idx, base_key, order, i, sbp, out) ==
    IF i > Len(order) THEN acc
    ELSE LET ph  == order[i]
             a1  == telegram_branch(acc, idx, base_key, ph, sbp[ph],
                                    out[<<ph, "telegram">>])
             a2  == email_branch(a1, idx, base_key, ph, sbp[ph],
                                 out[<<ph, "email">>])
         IN fan_out(a2, idx, base_key, order, i + 1, sbp, out)

(***************************************************************************)
(* fetch_to.                                                               *)
(***************************************************************************)
NoHeader == "(none)"
\* what requests.get may answer: a 2xx, a 304, a 4xx/5xx, a status that is
\* none of these (a 3xx that requests does not follow, such as 300 or a
\* redirect without Location), or a transport error
Statuses == {"200", "304", "300", "404", "neterr"}

\* requests.get raised (timeout, connection error)
transport_error(st) == st = "neterr"

\* r.raise_for_status() raises: it does for the 4xx and 5xx statuses only
raise_for_status(st) == st = "404"

\* meta.get(url, {}) and m.get(k, "")
meta_get(meta, url, k) ==
    IF meta[url].present THEN meta[url][k] ELSE ""

\* the sync meta after a 2xx answer carrying the headers etag and lastmod
meta_after_ok(meta, url, etag, lastmod) ==
    [u \in DOMAIN meta |->
        IF u = url
        THEN [present |-> TRUE,
              etag |-> IF etag # NoHeader THEN etag
                       ELSE meta_get(meta, url, "etag"),
              last_modified |-> IF lastmod # NoHeader THEN lastmod
                                ELSE meta_get(meta, url, "last_modified")]
        ELSE meta[u]]

\* a fetch_to that takes a 304 for a success and writes its (empty) body
fetch_to_writes_on_304(fs, meta, path, url, resp) ==
    IF url = "" THEN [files |-> fs, meta |-> meta]
    ELSE IF transport_error(resp.status) THEN [files |-> fs, meta |-> meta]
    ELSE IF raise_for_status(resp.status) THEN [files |-> fs, meta |-> meta]
    ELSE [files |-> [fs EXCEPT ![path] = resp.content],
          meta  |-> meta_after_ok(meta, url, resp.etag, resp.lastmod)]

\* fetch_to(path, url) under the answer resp = [status, content, etag,
\* lastmod]: the files and the sync meta it leaves
fetch_to(fs, meta, path, url, resp) ==
    IF url = "" THEN [files |-> fs, meta |-> meta]
    ELSE IF transport_error(resp.status) THEN [files |-> fs, meta |-> meta]
    ELSE IF resp.status = "304" THEN [files |-> fs, meta |-> meta]
    ELSE IF raise_for_status(resp.status) THEN [files |-> fs, meta |-> meta]
    ELSE [files |-> [fs EXCEPT ![path] = resp.content],
          meta  |-> meta_after_ok(meta, url, resp.etag, resp.lastmod)]

(***************************************************************************)
(* The state.                                                              *)
(***************************************************************************)
VARIABLES
    syncMeta,       \* .sync_meta.json: url -> [present, etag, last_modified]
    stateFile,      \* state.json: [exists, corrupt, last_ts, last_row,
                    \*              processed_channels]
    PROCESSED_MEM,  \* the module-level cache of the running process
    pc,             \* where run_once stands
    state,          \* run_once's local state dict: [last_ts, last_row]
    processed,      \* run_once's local set of channel keys
    max_dt_seen,
    to_process,     \* indices of the new rows still to dispatch
    sent_count,
    lastResp,       \* the answer the last fetch_to got
    sendLog,        \* the audit rows (attempts) of the running cycle
    cycles,         \* cycles run, to the end or to a stop half-way
    restarts,       \* restarts so far
    \* history, read by the properties only
    insertSeq,      \* the channel keys in the order they were first recorded
    sinceStart,     \* the channel keys recorded since the process started
    sameInputs,     \* the running cycle loaded the files the one before did
    aborted         \* a cycle was stopped half-way

\* the state of reporter.py, a process of its own
VARIABLES
    reportHours,    \* REPORT_HOURS of the deployment
    clock,          \* datetime.now(): [day, hour, minute]; minute 2 stands
                    \* for the minutes 2..59
    rpc,            \* where main()'s loop stands: "check" or "sleep"
    report_state,   \* report_state.json: [last_slot]
    reports,        \* the reports delivered: [day, hour, minute, dept]
    lastRun,        \* the last run_once: when, and how many sends it tried
    anyFailed       \* a send of the reporter has failed

reporter == << reportHours, clock, rpc, report_state, reports, lastRun,
               anyFailed >>

vars == << env, files, syncMeta, stateFile, PROCESSED_MEM, pc, state, processed,
           max_dt_seen, to_process, sent_count, lastResp, sendLog, cycles,
           restarts, insertSeq, sinceStart, sameInputs, aborted, reporter >>

locals == << state, processed, max_dt_seen, to_process, sent_count, sendLog >>
history == << insertSeq, sinceStart, sameInputs, aborted >>

FreshState == [last_ts |-> 0, last_row |-> 0]
NoStateFile ==
    [exists |-> FALSE, corrupt |-> FALSE, last_ts |-> 0, last_row |-> 0,
     processed_channels |-> {}]
\* state.json as open(path, "w") leaves it when json.dump does not finish:
\* the file is there and is not valid JSON
TornStateFile ==
    [exists |-> TRUE, corrupt |-> TRUE, last_ts |-> 0, last_row |-> 0,
     processed_channels |-> {}]
NoResp == [path |-> "", status |-> ""]
NoMeta == [present |-> FALSE, etag |-> "", last_modified |-> ""]

\* the deployment Spec explores: the events file is synced from a remote
\* URL, the roster and the directory are local; both channels are live
DefaultEnv ==
    [CHANNELS |-> {"telegram", "email"}, DRY_RUN |-> FALSE,
     TELEGRAM_BOT_TOKEN |-> "token", SMTP_HOST |-> "smtp",
     SYNC_UPDATES_URL |-> "u_updates", SYNC_ONCALL_URL |-> "",
     SYNC_STAFF_URL |-> "",
     rows |-> EventRows, tags |-> {"e1"}, dates |-> {NoHeader},
     rotation |-> TRUE, statuses |-> Statuses]

\* reporter.py as it starts: no report_state.json, the clock at midnight
Midnight == [day |-> 0, hour |-> 0, minute |-> 0]
NoSlot == [date |-> None, hour_slot |-> None]
NoRun == [at |-> Midnight, attempts |-> 0, ran |-> FALSE]
DefaultHours == {0, 6, 12, 18}

ReporterStart(hours) ==
    /\ reportHours = hours
    /\ clock = Midnight
    /\ rpc = "check"
    /\ report_state = [last_slot |-> NoSlot]
    /\ reports = {}
    /\ lastRun = NoRun
    /\ anyFailed = FALSE

PollerStart(e) ==
    /\ env = e
    /\ files = [p \in Paths |->
                  CASE p = "updates" -> << >>
                    [] p = "oncall"  -> OncallFileA
                    [] p = "staff"   -> StaffFile]
    /\ syncMeta = [u \in Urls |-> NoMeta]
    /\ stateFile = NoStateFile
    /\ PROCESSED_MEM = {}
    /\ pc = "sync_updates"
    /\ state = FreshState
    /\ processed = {}
    /\ max_dt_seen = None
    /\ to_process = << >>
    /\ sent_count = 0
    /\ lastResp = NoResp
    /\ sendLog = << >>
    /\ cycles = 0
    /\ restarts = 0
    /\ insertSeq = << >>
    /\ sinceStart = {}
    /\ sameInputs = TRUE
    /\ aborted = FALSE

InitWith(e) == PollerStart(e) /\ ReporterStart(DefaultHours)

Init == InitWith(DefaultEnv)

(***************************************************************************)
(* The steps of run_once, in the order main()'s loop takes them.           *)
(***************************************************************************)
\* the contents a 2xx answer may carry for a path: the events file as it
\* is, with a row of rows appended, or (on a server that rotates the file)
\* with its oldest row rotated out.  Any other answer is modelled with an
\* empty body
Contents(path, rows) ==
    IF path = "updates"
    THEN {files.updates}
         \cup (IF Len(files.updates) < MaxRows
               THEN {Append(files.updates, r) : r \in rows} ELSE {})
         \cup (IF env.rotation /\ files.updates # << >>
               THEN {Tail(files.updates)} ELSE {})
    ELSE IF path = "oncall" THEN OncallFiles
    ELSE {StaffFile}

Responses(path, rows, tags, dates) ==
    IF UrlOf(path) = ""
    THEN {[status |-> "", content |-> << >>, etag |-> NoHeader,
           lastmod |-> NoHeader]}
    ELSE {[status |-> "200", content |-> c, etag |-> e, lastmod |-> m] :
              c \in Contents(path, rows), e \in tags, m \in dates}
         \cup {[status |-> st, content |-> << >>, etag |-> NoHeader,
                lastmod |-> NoHeader] : st \in env.statuses \ {"200"}}

\* one call fetch_to(path, url) of run_once's step 1
Fetch(path, from, next) ==
    /\ pc = from
    /\ \E resp \in Responses(path, env.rows, env.tags, env.dates) :
          LET r == fetch_to(files, syncMeta, path, UrlOf(path), resp)
          IN /\ files' = r.files
             /\ syncMeta' = r.meta
             /\ lastResp' = [path |-> path, status |-> resp.status]
             /\ sameInputs' = ((from = "sync_updates" \/ sameInputs)
                               /\ r.files = files)
    /\ pc' = next
    /\ UNCHANGED << reporter, env, stateFile, PROCESSED_MEM, locals, cycles, restarts,
                    insertSeq, sinceStart, aborted >>

FetchUpdates ==
    /\ cycles < MaxCycles
    /\ Fetch("updates", "sync_updates", "sync_oncall")
FetchOncall == Fetch("oncall", "sync_oncall", "sync_staff")
FetchStaff == Fetch("staff", "sync_staff", "load")

\* json.load of load_state raises: the file is there and is not valid JSON;
\* neither load_state, run_once nor main() catches it
load_state_raises(sf) == sf.exists /\ sf.corrupt

\* load_state
load_state(sf) ==
    IF ~sf.exists THEN FreshState
    ELSE [last_ts |-> sf.last_ts, last_row |-> sf.last_row]

\* processed as run_once builds it: the persisted keys and the cache
merged_processed(sf, mem) == sf.processed_channels \cup mem

\* last_dt of run_once
loaded_dt(st) == IF st.last_ts # 0 THEN parse_iso(st.last_ts) ELSE None

\* a step 5 that starts from no maximum at all
initial_max_dt_none(last_dt) == None

\* max_dt_seen as step 5 starts with it
initial_max_dt(last_dt) == last_dt

\* steps 2-4 of run_once: load the CSVs and the state, merge the cache,
\* select the new rows
LoadAndSelect ==
    /\ pc = "load"
    /\ ~load_state_raises(stateFile)
    /\ LET st == load_state(stateFile)
           pr == merged_processed(stateFile, PROCESSED_MEM)
       IN /\ state' = st
          /\ processed' = pr
          /\ PROCESSED_MEM' = pr
          /\ max_dt_seen' = initial_max_dt(loaded_dt(st))
          /\ to_process' = select_new(files.updates, 1, loaded_dt(st), st.last_row)
    /\ sent_count' = 0
    /\ sendLog' = << >>
    /\ pc' = "dispatch"
    /\ UNCHANGED << reporter, env, files, syncMeta, stateFile, lastResp, cycles, restarts,
                    history >>

\* steps 2-3 of run_once over a state.json that is not valid JSON: the
\* exception of json.load leaves run_once and main(), the process ends
LoadStateRaises ==
    /\ pc = "load"
    /\ load_state_raises(stateFile)
    /\ pc' = "terminated"
    /\ aborted' = TRUE
    /\ UNCHANGED << reporter, env, files, syncMeta, stateFile, PROCESSED_MEM, locals,
                    lastResp, cycles, restarts, insertSeq, sinceStart,
                    sameInputs >>

\* the row the loop of step 5 stands at
CurIdx == Head(to_process)
CurRow == files.updates[CurIdx + 1]
CurTargets ==
    dep_to_oncall(files.oncall, staff_by_phone(files.staff), CurRow.department)

\* "if not department: continue"
SkipNoDepartment ==
    /\ pc = "dispatch"
    /\ to_process # << >>
    /\ CurRow.department = ""
    /\ to_process' = Tail(to_process)
    /\ UNCHANGED << reporter, env, files, syncMeta, stateFile, PROCESSED_MEM, pc, state,
                    processed, max_dt_seen, sent_count, lastResp, sendLog,
                    cycles, restarts, history >>

\* "if not targets: continue"
SkipNoOncall ==
    /\ pc = "dispatch"
    /\ to_process # << >>
    /\ CurRow.department # ""
    /\ CurTargets = {}
    /\ to_process' = Tail(to_process)
    /\ UNCHANGED << reporter, env, files, syncMeta, stateFile, PROCESSED_MEM, pc, state,
                    processed, max_dt_seen, sent_count, lastResp, sendLog,
                    cycles, restarts, history >>

\* max_dt_seen after a dispatched row
advance_dt(seen, ts_dt) ==
    IF ts_dt # None /\ (seen = None \/ ts_dt > seen) THEN ts_dt ELSE seen

RECURSIVE record_order(_, _, _)
\* history: seq extended by the keys of log[i..] that were sent and are new to it
record_order(seq, log, i) ==
    IF i > Len(log) THEN seq
    ELSE record_order(
            IF log[i].status = "sent" /\ log[i].key \notin Range(seq)
            THEN Append(seq, log[i].key) ELSE seq,
            log, i + 1)

\* a loop body that persists the ledger after every event
DispatchRowSavingEach ==
    /\ pc = "dispatch"
    /\ to_process # << >>
    /\ CurRow.department # ""
    /\ CurTargets # {}
    /\ \E order \in Orders(CurTargets), out \in [CurTargets \X CHANNELS -> BOOLEAN] :
          LET row      == CurRow
              base_key == make_key(row.id, row.patient_name, row.department,
                                   row.event, row.timestamp)
              acc      == fan_out([processed |-> processed,
                                   mem |-> PROCESSED_MEM,
                                   sent |-> sent_count, log |-> sendLog],
                                  CurIdx, base_key, order, 1,
                                  staff_by_phone(files.staff), out)
          IN /\ processed' = acc.processed
             /\ PROCESSED_MEM' = acc.mem
             /\ sent_count' = acc.sent
             /\ sendLog' = acc.log
             /\ insertSeq' = record_order(insertSeq, acc.log, Len(sendLog) + 1)
             /\ sinceStart' = sinceStart \cup (acc.processed \ processed)
             /\ stateFile' = [exists |-> TRUE, corrupt |-> FALSE,
                              last_ts |-> stateFile.last_ts,
                              last_row |-> Max(state.last_row, CurIdx),
                              processed_channels |-> acc.processed]
    /\ max_dt_seen' = advance_dt(max_dt_seen, parse_iso(CurRow.timestamp))
    /\ state' = [state EXCEPT !.last_row = Max(@, CurIdx)]
    /\ to_process' = Tail(to_process)
    /\ UNCHANGED << reporter, env, files, syncMeta, pc, lastResp, cycles,
                    restarts, sameInputs, aborted >>

\* the body of the loop of step 5 for a row with a department and targets
DispatchRow ==
    /\ pc = "dispatch"
    /\ to_process # << >>
    /\ CurRow.department # ""
    /\ CurTargets # {}
    /\ \E order \in Orders(CurTargets), out \in [CurTargets \X CHANNELS -> BOOLEAN] :
          LET row      == CurRow
              base_key == make_key(row.id, row.patient_name, row.department,
                                   row.event, row.timestamp)
              acc      == fan_out([processed |-> processed,
                                   mem |-> PROCESSED_MEM,
                                   sent |-> sent_count, log |-> sendLog],
                                  CurIdx, base_key, order, 1,
                                  staff_by_phone(files.staff), out)
          IN /\ processed' = acc.processed
             /\ PROCESSED_MEM' = acc.mem
             /\ sent_count' = acc.sent
             /\ sendLog' = acc.log
             /\ insertSeq' = record_order(insertSeq, acc.log, Len(sendLog) + 1)
             /\ sinceStart' = sinceStart \cup (acc.processed \ processed)
    /\ max_dt_seen' = advance_dt(max_dt_seen, parse_iso(CurRow.timestamp))
    /\ state' = [state EXCEPT !.last_row = Max(@, CurIdx)]
    /\ to_process' = Tail(to_process)
    /\ UNCHANGED << reporter, env, files, syncMeta, stateFile, pc, lastResp, cycles,
                    restarts, sameInputs, aborted >>

\* a step 6 without the cut
trimmed_without_cut(pr) == {pr}

\* the sets "set(list(processed)[-50000:])" may be: a Python set has no
\* insertion order, the slice keeps some RetentionBound of its elements
trimmed(pr) ==
    IF Cardinality(pr) > RetentionBound
    THEN {kept \in SUBSET pr : Cardinality(kept) = RetentionBound}
    ELSE {pr}

\* state["last_ts"] as step 6 leaves it
saved_last_ts(st, seen) == IF seen # None THEN to_iso(seen) ELSE st.last_ts

\* step 6 of run_once: trim the ledger and save_state; run_once returns and
\* its locals are gone
SaveState ==
    /\ pc = "dispatch"
    /\ to_process = << >>
    /\ \E kept \in trimmed(processed) :
          stateFile' = [exists |-> TRUE, corrupt |-> FALSE,
                        last_ts |-> saved_last_ts(state, max_dt_seen),
                        last_row |-> state.last_row,
                        processed_channels |-> kept]
    /\ cycles' = cycles + 1
    /\ pc' = "sync_updates"
    /\ state' = FreshState
    /\ processed' = {}
    /\ max_dt_seen' = None
    /\ sent_count' = 0
    /\ sendLog' = << >>
    /\ UNCHANGED << reporter, env, files, syncMeta, PROCESSED_MEM, to_process, lastResp,
                    restarts, insertSeq, sinceStart, sameInputs, aborted >>

\* the process stops (at any point) and is started again: the module-level
\* cache and the locals of run_once are gone, the files stay
Restart ==
    /\ restarts < MaxRestarts
    /\ cycles < MaxCycles
    /\ restarts' = restarts + 1
    /\ PROCESSED_MEM' = {}
    /\ pc' = "sync_updates"
    /\ state' = FreshState
    /\ processed' = {}
    /\ max_dt_seen' = None
    /\ to_process' = << >>
    /\ sent_count' = 0
    /\ sendLog' = << >>
    /\ sinceStart' = {}
    /\ aborted' = (aborted \/ pc # "sync_updates")
    /\ cycles' = IF pc = "sync_updates" THEN cycles ELSE cycles + 1
    /\ UNCHANGED << reporter, env, files, syncMeta, stateFile, lastResp, insertSeq,
                    sameInputs >>

\* the process stops inside save_state, after open(path, "w") has truncated
\* state.json and before json.dump has written it out, and is started again
CrashInSave ==
    /\ pc = "dispatch"
    /\ to_process = << >>
    /\ restarts < MaxRestarts
    /\ restarts' = restarts + 1
    /\ stateFile' = TornStateFile
    /\ PROCESSED_MEM' = {}
    /\ pc' = "sync_updates"
    /\ state' = FreshState
    /\ processed' = {}
    /\ max_dt_seen' = None
    /\ sent_count' = 0
    /\ sendLog' = << >>
    /\ sinceStart' = {}
    /\ aborted' = TRUE
    /\ cycles' = cycles + 1
    /\ UNCHANGED << reporter, env, files, syncMeta, to_process, lastResp, insertSeq,
                    sameInputs >>

Next ==
    \/ FetchUpdates
    \/ FetchOncall
    \/ FetchStaff
    \/ LoadAndSelect
    \/ LoadStateRaises
    \/ SkipNoDepartment
    \/ SkipNoOncall
    \/ DispatchRow
    \/ SaveState
    \/ CrashInSave
    \/ Restart

Spec == Init /\ [][Next]_vars

\* a deployment that syncs all three datasets, against a server whose
\* validators vary; the events are rows of three kinds
SyncEnv ==
    [CHANNELS |-> {"telegram", "email"}, DRY_RUN |-> FALSE,
     TELEGRAM_BOT_TOKEN |-> "token", SMTP_HOST |-> "smtp",
     SYNC_UPDATES_URL |-> "u_updates", SYNC_ONCALL_URL |-> "u_oncall",
     SYNC_STAFF_URL |-> "u_staff",
     rows |-> {Row("", "ICU", 4), Row("", "", 4), Row("", "LAB", 4)},
     tags |-> {"e1", "e2", NoHeader}, dates |-> {"m1", NoHeader},
     rotation |-> TRUE, statuses |-> Statuses]

InitSync == InitWith(SyncEnv)

SyncSpec == InitSync /\ [][Next]_vars

\* deployments in which sends are simulated: DRY_RUN=1, no
\* TELEGRAM_BOT_TOKEN (email live), no SMTP_HOST (Telegram live)
SimEnv(dry, token, host) ==
    [CHANNELS |-> {"telegram", "email"}, DRY_RUN |-> dry,
     TELEGRAM_BOT_TOKEN |-> token, SMTP_HOST |-> host,
     SYNC_UPDATES_URL |-> "u_updates", SYNC_ONCALL_URL |-> "",
     SYNC_STAFF_URL |-> "",
     rows |-> {Row("", "ER", 0), Row("", "", 4), Row("", "LAB", 4)},
     tags |-> {"e1"}, dates |-> {NoHeader},
     rotation |-> TRUE, statuses |-> Statuses]

SimEnvs ==
    { SimEnv(TRUE, "token", "smtp"),
      SimEnv(FALSE, "", "smtp"),
      SimEnv(FALSE, "token", "") }

InitSim == \E e \in SimEnvs : InitWith(e)

SimSpec == InitSim /\ [][Next]_vars

\* a deployment whose events file only grows: the server appends rows and
\* never rotates the file, and answers 200 with the file, 304, an error
\* status or not at all
AppendEnv ==
    [DefaultEnv EXCEPT !.rotation = FALSE,
                       !.statuses = {"200", "304", "404", "neterr"}]

InitAppend == InitWith(AppendEnv)

AppendSpec == InitAppend /\ [][Next]_vars

(***************************************************************************)
(* reporter.py: the periodic report to the departments' Telegram groups.   *)
(***************************************************************************)
REPORT_HOURS == reportHours

\* run_once: hour_slot = now.hour - (now.hour % 6); slot = "<date>-<hour_slot>"
hour_slot(now) == now.hour - (now.hour % 6)
slot_of(now) == [date |-> now.day, hour_slot |-> hour_slot(now)]

\* run_once: if state.get("last_slot") == slot: return
never_already_sent(st, slot) == FALSE
already_sent(st, slot) == st.last_slot = slot

\* telegram_send: False without a token, else whether the API answered 200
telegram_send(chat_id, ok) ==
    IF TELEGRAM_BOT_TOKEN = "" THEN FALSE ELSE ok

\* main: if now.hour in REPORT_HOURS and now.minute < 2: run_once()
in_window(now) == now.hour \in REPORT_HOURS /\ now.minute < 2

\* run_once of reporter.py, with the answers of the Telegram API per
\* department drawn from BOOLEAN
ReporterRunOnce ==
    /\ rpc = "check"
    /\ in_window(clock)
    /\ rpc' = "sleep"
    /\ LET slot == slot_of(clock) IN
       IF already_sent(report_state, slot)
       THEN /\ lastRun' = [at |-> clock, attempts |-> 0, ran |-> TRUE]
            /\ UNCHANGED << report_state, reports, anyFailed >>
       ELSE \E api \in [DOMAIN TELEGRAM_CHAT_IDS -> BOOLEAN] :
              LET delivered == { d \in DOMAIN TELEGRAM_CHAT_IDS :
                                   telegram_send(TELEGRAM_CHAT_IDS[d], api[d]) }
                  sent_any == delivered # {}
              IN /\ reports' = reports \cup
                       { [day |-> clock.day, hour |-> clock.hour,
                          minute |-> clock.minute, dept |-> d] : d \in delivered }
                 /\ report_state' = IF sent_any THEN [last_slot |-> slot]
                                    ELSE report_state
                 /\ anyFailed' = (anyFailed \/ delivered # DOMAIN TELEGRAM_CHAT_IDS)
                 /\ lastRun' = [at |-> clock,
                                attempts |-> Cardinality(DOMAIN TELEGRAM_CHAT_IDS),
                                ran |-> TRUE]
    /\ UNCHANGED << reportHours, clock >>
    /\ UNCHANGED << env, files, syncMeta, stateFile, PROCESSED_MEM, pc, state,
                    processed, max_dt_seen, to_process, sent_count, lastResp,
                    sendLog, cycles, restarts, insertSeq, sinceStart,
                    sameInputs, aborted >>

\* main outside the report window: nothing but the sleep
ReporterIdle ==
    /\ rpc = "check"
    /\ ~in_window(clock)
    /\ rpc' = "sleep"
    /\ UNCHANGED << reportHours, clock, report_state, reports, lastRun, anyFailed >>
    /\ UNCHANGED << env, files, syncMeta, stateFile, PROCESSED_MEM, pc, state,
                    processed, max_dt_seen, to_process, sent_count, lastResp,
                    sendLog, cycles, restarts, insertSeq, sinceStart,
                    sameInputs, aborted >>

\* the clock readings the next iteration can see after time.sleep(60): a
\* run_once that took long makes the loop miss minute 1
after_sleep(now) ==
    IF now.minute = 0
        THEN { [now EXCEPT !.minute = 1], [now EXCEPT !.minute = 2] }
    ELSE IF now.minute = 1
        THEN { [now EXCEPT !.minute = 2] }
    ELSE IF now.hour < 23
        THEN { [now EXCEPT !.hour = now.hour + 1, !.minute = 0] }
    ELSE IF now.day + 1 < MaxDays
        THEN { [day |-> now.day + 1, hour |-> 0, minute |-> 0] }
    ELSE {}

\* main: time.sleep(60)
ReporterSleep ==
    /\ rpc = "sleep"
    /\ clock' \in after_sleep(clock)
    /\ rpc' = "check"
    /\ UNCHANGED << reportHours, report_state, reports, lastRun, anyFailed >>
    /\ UNCHANGED << env, files, syncMeta, stateFile, PROCESSED_MEM, pc, state,
                    processed, max_dt_seen, to_process, sent_count, lastResp,
                    sendLog, cycles, restarts, insertSeq, sinceStart,
                    sameInputs, aborted >>

ReporterNext == ReporterRunOnce \/ ReporterIdle \/ ReporterSleep

\* deployments of the reporter: the default hours, and hours closer than six
HourSets == { DefaultHours, {0, 3} }

ReporterInit == PollerStart(DefaultEnv) /\ \E h \in HourSets : ReporterStart(h)

ReporterSpec == ReporterInit /\ [][ReporterNext]_vars

(***************************************************************************)
(* Vocabulary of the properties.                                           *)
(***************************************************************************)
\* the base key of the i-th row of the events file
RowKey(i) ==
    LET r == files.updates[i]
    IN make_key(r.id, r.patient_name, r.department, r.event, r.timestamp)

\* the attempts a step has added to the audit rows
NewAttempts ==
    IF Len(sendLog') > Len(sendLog) THEN (Len(sendLog) + 1)..Len(sendLog') ELSE {}

\* every channel key recorded so far
Recorded == Range(insertSeq)

\* the loop of step 5 is over and save_state has not run yet
LoopDone == pc = "dispatch" /\ to_process = << >>

\* the step is step 6 of a cycle
IsSave == pc = "dispatch" /\ pc' = "sync_updates" /\ restarts' = restarts

(***************************************************************************)
(* C1.  Idempotence of run_once.                                           *)
(***************************************************************************)
\* C1: when two cycles run in succession over the same files (none stopped
\* half-way, the second loading the state the first saved), the second one
\* sends nothing, whatever the outcomes of the sends of the first: its
\* sent_count is 0 and none of its attempts is recorded as sent, so that
\* what was sent was sent once, by the first
C1_SecondRunSendsNothing ==
    (LoopDone /\ cycles = 1 /\ ~aborted /\ sameInputs)
        => /\ sent_count = 0
           /\ \A i \in DOMAIN sendLog : sendLog[i].status # "sent"

(***************************************************************************)
(* C2.  A recorded key is not sent again.                                  *)
(***************************************************************************)
\* C2 as stated: in a run in which no cycle is stopped half-way, no attempt
\* is ever made for a channel key that has been recorded as processed
\* before, in the same cycle, in a later one or after a restart
C2_NeverSentAgain ==
    [][ ~aborted' =>
          \A i \in NewAttempts :
              /\ sendLog'[i].key \notin Recorded
              /\ \A j \in NewAttempts :
                     (j < i /\ sendLog'[j].key = sendLog'[i].key)
                         => sendLog'[j].status # "sent" ]_vars

\* C2, the part of it the code keeps: no attempt is made for a channel key that the running
\* process has recorded (in this cycle or an earlier one) or that state.json
\* holds; a key the trim has dropped from state.json is protected only
\* until the process restarts
C2_NotSentWhileHeld ==
    [][ \A i \in NewAttempts :
          /\ sendLog'[i].key \notin (sinceStart \cup stateFile.processed_channels)
          /\ \A j \in NewAttempts :
                 (j < i /\ sendLog'[j].key = sendLog'[i].key)
                     => sendLog'[j].status # "sent" ]_vars

\* after a restart a row is dispatched again (one of its channels is
\* attempted) while a key of it that state.json holds is left alone
C2_Witness ==
    /\ restarts >= 1
    /\ \E i \in DOMAIN sendLog, k \in stateFile.processed_channels :
          /\ k.base = sendLog[i].key.base
          /\ k # sendLog[i].key
          /\ \A j \in DOMAIN sendLog : sendLog[j].key # k

(***************************************************************************)
(* C3.  Every new row ends in the ledger.                                  *)
(***************************************************************************)
\* C3: when a cycle saves, every row of the events file whose key state.json
\* did not hold when the cycle started has a key in the state.json it
\* writes, whatever became of the row
C3_EveryRowRecorded ==
    [][ IsSave =>
          \A i \in DOMAIN files.updates :
              (\A k \in stateFile.processed_channels : k.base # RowKey(i))
                  => \E k \in stateFile'.processed_channels : k.base = RowKey(i) ]_vars

(***************************************************************************)
(* C4.  Recipient resolution.                                              *)
(***************************************************************************)
\* the first index of seq that satisfies P, 0 when there is none
FirstIndex(seq, P(_)) ==
    IF \E i \in DOMAIN seq : P(seq[i])
    THEN CHOOSE i \in DOMAIN seq :
            P(seq[i]) /\ \A j \in DOMAIN seq : P(seq[j]) => i <= j
    ELSE 0

\* the three-tier precedence the claim states, for the chat channel: a chat
\* id on an on-call row of the department, else the override table, else
\* the chat id of the first authorised on-call staff in file order
ClaimedTarget(department) ==
    LET oc   == files.oncall
        sbp  == staff_by_phone(files.staff)
        T1(r) == r.department = department /\ r.telegram_chat_id # ""
        T3(r) == /\ r.department = department
                 /\ authorized_flag(r.authorized)
                 /\ r.phone \in DOMAIN sbp
                 /\ sbp[r.phone].authorized
    IN IF FirstIndex(oc, T1) # 0 THEN oc[FirstIndex(oc, T1)].telegram_chat_id
       ELSE IF department \in DOMAIN TELEGRAM_CHAT_IDS
            THEN TELEGRAM_CHAT_IDS[department]
       ELSE IF FirstIndex(oc, T3) # 0
            THEN sbp[oc[FirstIndex(oc, T3)].phone].telegram_chat_id
       ELSE ""

\* C4: every chat message of a cycle goes to the target the three-tier
\* precedence picks for the department of its row
C4_ThreeTierPrecedence ==
    \A i \in DOMAIN sendLog :
        sendLog[i].ch = "telegram"
            => sendLog[i].to =
                   ClaimedTarget(files.updates[sendLog[i].idx + 1].department)

C6_WatermarksNeverDecrease ==
    [][ stateFile'.corrupt
        \/ /\ stateFile'.last_ts >= stateFile.last_ts
           /\ stateFile'.last_row >= stateFile.last_row ]_vars

\* a second cycle has dispatched an appended row whose timestamp is older
\* than the last_ts it then saved
C6_Witness ==
    /\ pc = "sync_updates"
    /\ cycles = 2
    /\ ~aborted
    /\ stateFile.last_row = Len(files.updates) - 1
    /\ stateFile.last_row >= 1
    /\ files.updates[Len(files.updates)].timestamp # 0
    /\ files.updates[Len(files.updates)].timestamp < stateFile.last_ts

(***************************************************************************)
(* C7.  The dedup key.                                                     *)
(***************************************************************************)
\* two rows are the same event: by their id when one has an id, by their
\* four fields otherwise
SameEvent(r1, r2) ==
    IF r1.id # "" \/ r2.id # "" THEN r1.id = r2.id
    ELSE /\ r1.patient_name = r2.patient_name
         /\ r1.department = r2.department
         /\ r1.event = r2.event
         /\ r1.timestamp = r2.timestamp

LogRow(i) == files.updates[sendLog[i].idx + 1]

\* C7 as stated: a row that follows a row of the same event (the same id,
\* or no id and the same four fields) in the events file is never dispatched
C7_OnlyFirstDispatched ==
    \A i \in DOMAIN sendLog :
        ~ \E n \in DOMAIN files.updates :
              /\ n < sendLog[i].idx + 1
              /\ SameEvent(files.updates[n], LogRow(i))

\* C7, the part of it the code keeps: rows of the same event are
\* deduplicated per channel and recipient: after a send of a cycle has succeeded, no row of the same
\* event is attempted on that channel to that recipient
C7_DedupPerChannelAndRecipient ==
    \A i, j \in DOMAIN sendLog :
        (/\ i < j
         /\ sendLog[i].status = "sent"
         /\ sendLog[i].ch = sendLog[j].ch
         /\ sendLog[i].to = sendLog[j].to)
            => ~SameEvent(LogRow(i), LogRow(j))

\* a cycle has sent a row, and has then dispatched a later row of the same
\* id whose other fields differ without attempting that channel again
C7_Witness ==
    /\ LoopDone
    /\ \E i \in DOMAIN sendLog :
          /\ sendLog[i].status = "sent"
          /\ LET n == state.last_row + 1
             IN /\ n > sendLog[i].idx + 1
                /\ stateFile.last_row < state.last_row
                /\ n \in DOMAIN files.updates
                /\ files.updates[n].id # ""
                /\ SameEvent(files.updates[n], LogRow(i))
                /\ files.updates[n] # LogRow(i)
                /\ \A j \in DOMAIN sendLog :
                      sendLog[j].idx = n - 1 => sendLog[j].ch # sendLog[i].ch

(***************************************************************************)
(* C8, C9.  The retention bound.                                           *)
(***************************************************************************)
\* C8: state.json never holds more keys than the retention bound
C8_LedgerBound ==
    Cardinality(stateFile.processed_channels) <= RetentionBound

\* more keys have been recorded than the bound, and state.json holds
\* exactly the bound
C8_Witness ==
    /\ stateFile.exists
    /\ Cardinality(Recorded) > RetentionBound
    /\ Cardinality(stateFile.processed_channels) = RetentionBound

Pos(seq, k) == CHOOSE i \in DOMAIN seq : seq[i] = k

\* C9: when step 6 trims the ledger (in a process that has run from the
\* start, so that every key was recorded once), every key it keeps was
\* recorded after every key it drops
C9_DropsTheOldest ==
    [][ (IsSave /\ restarts = 0)
          => \A r \in stateFile'.processed_channels :
                 \A d \in processed \ stateFile'.processed_channels :
                     Pos(insertSeq, d) < Pos(insertSeq, r) ]_vars

(***************************************************************************)
(* C10.  Conditional sync.                                                 *)
(***************************************************************************)
\* the step is the fetch_to of a path and got the answer st
IsFetch(path, st) ==
    /\ pc = "sync_" \o path
    /\ pc' # pc
    /\ restarts' = restarts
    /\ lastResp' = [path |-> path, status |-> st]

\* C10: a fetch_to that is answered 304 leaves every local file and the
\* stored validators of every URL as they were
C10_NotModifiedIsNoOp ==
    [][ (\E p \in Paths : IsFetch(p, "304"))
          => files' = files /\ syncMeta' = syncMeta ]_vars

\* a sync that holds validators and a non-empty file was answered 304
C10_Witness ==
    /\ lastResp.status = "304"
    /\ lastResp.path = "updates"
    /\ syncMeta["u_updates"].present
    /\ syncMeta["u_updates"].etag = "e2"
    /\ syncMeta["u_oncall"].present
    /\ files.updates # << >>

(***************************************************************************)
(* C11.  A failed sync keeps what is there.                                *)
(***************************************************************************)
\* C11: a fetch_to that ends in a transport error or in a status that is
\* neither 2xx nor 304 leaves every local file and the stored validators as
\* they were, and run_once goes on to its next step
C11_FailureKeepsFile ==
    [][ \A p \in Paths, st \in Statuses \ {"200", "304"} :
          IsFetch(p, st) => files' = files /\ syncMeta' = syncMeta ]_vars

(***************************************************************************)
(* C12.  The ledger is persisted at the end of the cycle.                  *)
(***************************************************************************)
\* C12: state.json is written only by the save_state that ends a cycle,
\* after the last row of the cycle has been dispatched: no step taken while
\* rows are still to be dispatched, and no stop of the process before
\* save_state has begun, changes state.json; a cycle that returns has
\* written it
C12_PersistedOnceAtEnd ==
    [][ /\ stateFile' # stateFile => LoopDone
        /\ (restarts' # restarts /\ ~LoopDone) => stateFile' = stateFile
        /\ IsSave => stateFile'.exists /\ ~stateFile'.corrupt ]_vars

\* the process was stopped in a cycle that had sent something, and
\* state.json is still what the cycle before had saved
C12_Witness ==
    /\ restarts = 1
    /\ cycles = 2
    /\ aborted
    /\ stateFile.exists
    /\ ~stateFile.corrupt
    /\ Cardinality(Recorded) <= RetentionBound
    /\ stateFile.processed_channels # {}
    /\ \E k \in Recorded : k \notin stateFile.processed_channels

(***************************************************************************)
(* C13.  A state file that cannot be read.                                 *)
(***************************************************************************)
\* C13: when run_once loads a state.json that is not valid JSON, it starts
\* from a fresh ledger and goes on to dispatch; the process is not ended
C13_CorruptStateStartsFresh ==
    [][ (pc = "load" /\ stateFile.exists /\ stateFile.corrupt
         /\ restarts' = restarts)
          => /\ pc' = "dispatch"
             /\ state' = FreshState
             /\ processed' = PROCESSED_MEM ]_vars

(***************************************************************************)
(* C14.  Templates with a placeholder the event has no value for.          *)
(***************************************************************************)
\* a template string with every placeholder replaced by its value, and by
\* the empty string when the values have none
FilledWithBlanks(s, values) ==
    join([i \in DOMAIN s |->
            IF s[i].lit THEN s[i].s
            ELSE IF s[i].s \in DOMAIN values THEN values[s[i].s] ELSE ""])

\* C14: the text of every message that is sent is its template with the
\* placeholders the row has values for substituted and the other
\* placeholders rendered as the empty string
C14_MissingPlaceholderIsBlank ==
    \A i \in DOMAIN sendLog :
        LET tm == template_of(LogRow(i))
        IN sendLog[i].text =
              FilledWithBlanks(IF sendLog[i].ch = "telegram" THEN tm.telegram
                               ELSE tm.subject,
                               values_of(LogRow(i)))

(***************************************************************************)
(* C15.  Simulated sends.                                                  *)
(***************************************************************************)
\* the channel is simulated: DRY_RUN is set, or the setting that gives
\* access to its provider (the bot token, the SMTP host) is empty
Simulated(channel) ==
    \/ DRY_RUN
    \/ channel = "telegram" /\ TELEGRAM_BOT_TOKEN = ""
    \/ channel = "email" /\ SMTP_HOST = ""

SecondCycle == cycles = 1 /\ ~aborted /\ sameInputs

\* nobody is on call for the department of the row of index idx
NoTarget(idx) ==
    LET department == files.updates[idx + 1].department
    IN /\ department # ""
       /\ dep_to_oncall(files.oncall, staff_by_phone(files.staff), department) = {}

\* C16: a row whose department resolves to no target is not examined again
\* in the next cycle: the selection of the second of two cycles over the
\* same files holds no such row
C16_MissNotExaminedAgain ==
    (pc = "dispatch" /\ SecondCycle)
        => \A n \in DOMAIN to_process : ~NoTarget(to_process[n])

\* C17: a row whose sends have all failed is not attempted in the next
\* cycle: in the second of two cycles over the same files there is no
\* attempt for a row none of whose keys has been recorded
C17_FailedNotAttemptedAgain ==
    [][ (SecondCycle /\ ~aborted')
          => \A i \in NewAttempts :
                \E k \in Recorded : k.base = sendLog'[i].key.base ]_vars

(***************************************************************************)
(* C18, C19.  Who receives.                                                *)
(***************************************************************************)
\* the phone of the first on-call row, in file order, of the department
\* whose staff record is authorised ("" when there is none)
FirstOncall(department) ==
    LET oc   == files.oncall
        sbp  == staff_by_phone(files.staff)
        A(r) == /\ r.department = department
                /\ r.phone \in DOMAIN sbp
                /\ sbp[r.phone].authorized
    IN IF FirstIndex(oc, A) # 0 THEN oc[FirstIndex(oc, A)].phone ELSE ""

\* C18: the attempts for a row all go to one staff member, the first
\* authorised one on call for its department in file order
C18_OneRecipientPerDepartment ==
    \A i \in DOMAIN sendLog :
        sendLog[i].ph = FirstOncall(LogRow(i).department)

\* C19: whoever an attempt goes to is on call for the department of the row
\* through an on-call row whose authorized flag is true, and has a staff
\* record whose authorized flag is true
C19_DoubleAuthorization ==
    \A i \in DOMAIN sendLog :
        LET sbp == staff_by_phone(files.staff)
            ph  == sendLog[i].ph
        IN /\ ph \in DOMAIN sbp
           /\ sbp[ph].authorized
           /\ \E n \in DOMAIN files.oncall :
                 /\ files.oncall[n].department = LogRow(i).department
                 /\ files.oncall[n].phone = ph
                 /\ authorized_flag(files.oncall[n].authorized)

(***************************************************************************)
(* C20.  A failed send stays where it is.                                  *)
(***************************************************************************)
\* the channels of a staff record that run_once can send on: the channel
\* and the address
Deliverable(info) ==
    (IF "telegram" \in CHANNELS /\ info.telegram_chat_id # ""
     THEN {<<"telegram", info.telegram_chat_id>>} ELSE {})
    \cup
    (IF "email" \in CHANNELS /\ info.email # "" /\ info.email_enabled
     THEN {<<"email", info.email>>} ELSE {})

\* C20: a send that fails is an audit row with status "error" and nothing
\* more: for the row it belongs to, every channel of every on-call staff
\* member has its attempt all the same (or had its key in the ledger), and
\* the process goes on (it ends only over a state.json it cannot read)
C20_FailureIsConfined ==
    /\ pc = "terminated" => stateFile.corrupt
    /\ \A i \in DOMAIN sendLog :
          sendLog[i].status = "error"
            => LET sbp == staff_by_phone(files.staff)
                   idx == sendLog[i].idx
               IN \A ph \in dep_to_oncall(files.oncall, sbp,
                                          LogRow(i).department) :
                     \A d \in Deliverable(sbp[ph]) :
                        \/ \E j \in DOMAIN sendLog :
                              /\ sendLog[j].idx = idx
                              /\ sendLog[j].ph = ph
                              /\ sendLog[j].ch = d[1]
                        \/ make_channel_key(RowKey(idx + 1), d[1], d[2])
                              \in processed

\* after a send that failed, a send to another staff member for the same
\* row went out, and a later row was dispatched
C20_Witness ==
    \E i, j, k \in DOMAIN sendLog :
        /\ i < j /\ j < k
        /\ sendLog[i].status = "error"
        /\ sendLog[j].idx = sendLog[i].idx
        /\ sendLog[j].ph # sendLog[i].ph
        /\ sendLog[j].status = "sent"
        /\ sendLog[k].idx > sendLog[i].idx


(***************************************************************************)
(* The reporter.                                                           *)
(***************************************************************************)
IsReportRun == rpc = "check" /\ rpc' = "sleep" /\ in_window(clock)

SameSlot(r, now) == r.day = now.day /\ hour_slot(r) = hour_slot(now)

C21_AtMostOnePerSlot ==
    \A r1, r2 \in reports :
        (r1.dept = r2.dept /\ SameSlot(r1, r2)) => r1 = r2

C21_NoSendOnceRecorded ==
    (IsReportRun /\ report_state.last_slot = slot_of(clock))
        => (lastRun'.attempts = 0 /\ reports' = reports)

\* C21: within one report slot (date and six-hour bucket) no department
\* gets more than one report, whatever sends fail and however often
\* run_once is invoked, and a run_once that finds last_slot equal to the
\* current slot attempts no send.
C21_SlotGuard == []C21_AtMostOnePerSlot /\ [][C21_NoSendOnceRecorded]_vars

\* a run_once at minute 1 was skipped after a run at minute 0 in which one
\* department got its report and another did not
C21_Witness ==
    /\ lastRun.ran /\ lastRun.attempts = 0 /\ lastRun.at.minute = 1
    /\ anyFailed
    /\ \E r \in reports : SameSlot(r, lastRun.at) /\ r.minute = 0
    /\ \E d \in DOMAIN TELEGRAM_CHAT_IDS :
          \A r \in reports : ~(r.dept = d /\ SameSlot(r, lastRun.at))

ReportedAt(rs, now) ==
    \A d \in DOMAIN TELEGRAM_CHAT_IDS :
        \E r \in rs : r.dept = d /\ r.day = now.day /\ r.hour = now.hour

\* C22: whatever hours REPORT_HOURS names, when the clock reaches one of
\* them and no send fails, every department has a report of that hour once
\* run_once has run; a report of an earlier configured hour does not
\* suppress it.
C22_ReportAtEveryConfiguredHour ==
    [][(IsReportRun /\ ~anyFailed') => ReportedAt(reports', clock)]_vars

\* the same with the default hours only
C22_ReportAtDefaultHours ==
    [][(IsReportRun /\ ~anyFailed' /\ REPORT_HOURS = DefaultHours)
          => ReportedAt(reports', clock)]_vars

(***************************************************************************)
(* C23.  An appended row is not lost.                                      *)
(***************************************************************************)
\* the cycle's fetch has appended a row to the events file (under
\* AppendSpec the file changes in no other way), its loop is over and none
\* of its sends has failed
AppendedAndDone ==
    /\ LoopDone /\ ~sameInputs /\ files.updates # << >>
    /\ \A j \in DOMAIN sendLog : sendLog[j].status # "error"

\* the row of index idx was sent to staff member ph on channel ch in this cycle
SentInCycle(idx, ph, ch) ==
    \E j \in DOMAIN sendLog :
        /\ sendLog[j].idx = idx /\ sendLog[j].ph = ph /\ sendLog[j].ch = ch
        /\ sendLog[j].status = "sent"

\* the channel key of row n is in the ledger and an earlier row of the file
\* has the same key
SentForEarlierRow(n, ch, to) ==
    /\ make_channel_key(RowKey(n), ch, to) \in processed
    /\ \E i \in 1..(n - 1) : RowKey(i) = RowKey(n)

\* the statement as the specification has it: the appended row is sent to
\* every channel target of every authorized on-call staff member of its
\* department in the cycle that first sees it (the process has run without
\* a restart, so every cycle started from the state the one before saved)
C23_AppendedRowIsSent ==
    (AppendedAndDone /\ restarts = 0) =>
        LET n == Len(files.updates)
            sbp == staff_by_phone(files.staff)
        IN \A ph \in dep_to_oncall(files.oncall, sbp, files.updates[n].department) :
              \A d \in Deliverable(sbp[ph]) : SentInCycle(n - 1, ph, d[1])

\* C23: when the events file only grows by appended rows and the sends of
\* a cycle succeed, the row appended before that cycle is sent in it to
\* every channel target of every authorized on-call staff member of its
\* department, unless the ledger already holds that row's channel key from
\* an earlier row with the same key; the selection by last_ts / last_row
\* never leaves the appended row out.
C23_AppendedRowIsSentOrDuplicate ==
    AppendedAndDone =>
        LET n == Len(files.updates)
            sbp == staff_by_phone(files.staff)
        IN \A ph \in dep_to_oncall(files.oncall, sbp, files.updates[n].department) :
              \A d \in Deliverable(sbp[ph]) :
                 \/ SentInCycle(n - 1, ph, d[1])
                 \/ SentForEarlierRow(n, d[1], d[2])

\* the second cycle has sent an appended row whose timestamp is older than
\* the saved last_ts: only its index made it a new row
C23_Witness ==
    /\ AppendedAndDone /\ cycles = 1 /\ restarts = 0
    /\ Len(files.updates) = 2
    /\ stateFile.exists /\ stateFile.last_ts # 0
    /\ parse_iso(files.updates[2].timestamp) < parse_iso(stateFile.last_ts)
    /\ \E j \in DOMAIN sendLog : sendLog[j].idx = 1 /\ sendLog[j].status = "sent"
=============================================================================
